---- MODULE Spec2Model ----
(***************************************************************************)
(* starlette-sessions: the Bound Session state machine of base.py          *)
(* (BaseBackendSession / StandardBackendSession over a                      *)
(* MemorySessionBackend) and the self-contained cookie session of           *)
(* cookie/base.py and cookie/backend.py, with the timestamped signature of  *)
(* signedcookie/backend.py, and the SessionMiddleware of middleware.py.     *)
(*                                                                          *)
(* Under Spec, CookieSpec, SignedSpec and SelfContainedSpec one behaviour   *)
(* is the life of one session object: Init is the state right after the     *)
(* backend-as-factory call, every action is one method call on the object.  *)
(* Under MwSpec one behaviour is a sequence of requests of one client       *)
(* through the middleware; under ConcSpec it is two concurrent requests     *)
(* that present the same sid to one MemorySessionBackend.                   *)
(***************************************************************************)
EXTENDS Integers, Sequences, FiniteSets, TLC

\* ---------------------------------------------------------------- bounds
\* number of mapping calls, and of content reads, made on one session object
MaxOps == 2
MaxReads == 1
\* the clock runs from 0 to MaxTime seconds; a finite max_age is 0..MaxMaxAge
MaxTime == 2
MaxMaxAge == 1

\* the keys and values the caller uses
Keys == {"a", "b"}
Values == {1, 2}
\* the identifiers a client may present; those that may have an entry in the
\* store when the request starts; the values uuid4().hex may return
Sids == {"s1", "s2"}
StoredSids == {"s1"}
FreshSids == {"n1", "n2"}

\* Optional[str]: None is a string no identifier and no token equals
None == "None"
\* Optional[MutableMapping]: <<>> is None, <<m>> is the mapping m
NoSession == <<>>
Some(m) == <<m>>
\* a dict with string keys: a function on a subset of Keys
EmptyMap == [k \in {} |-> 0]
Mappings == UNION {[D -> Values] : D \in SUBSET Keys}
DictSet(m, k, v) == [x \in DOMAIN m \cup {k} |-> IF x = k THEN v ELSE m[x]]
DictDel(m, k) == [x \in DOMAIN m \ {k} |-> m[x]]

\* pickle.dumps / pickle.loads of a dict: the bytes are a value of their own
\* (the set of items), loads rebuilds a new dict from them
pickle_dumps(m) == {<<k, m[k]>> : k \in DOMAIN m}
pickle_loads(b) == [k \in {p[1] : p \in b} |-> (CHOOSE p \in b : p[1] = k)[2]]

VARIABLES
    \* BaseBackendSession
    sid,            \* self._sid
    f_accessed,     \* self._accessed
    f_modified,     \* self._modified
    session,        \* self.__session
    \* MemorySessionBackend
    storage,        \* self.__storage: sid -> pickled bytes
    \* StandardCookieBackendSession
    ck_content,     \* self.__content
    ck_accessed,    \* self.__accessed
    ck_cleared,     \* self.__cleared
    ck_type,        \* the Python type of self.__content: "dict" or "list"
    \* the backend and its surroundings
    kind,           \* the backend class: "memory", "cookie" or "signed"
    max_age,        \* BaseCookieSessionBackend.__max_age
    now,            \* time.time(), in seconds
    mw,             \* SessionMiddleware: the request in progress and the client
    conc,           \* the other of two concurrent requests, while it is suspended
    \* observation of the run
    presented,      \* the token the factory was called with
    calls,          \* the backend calls made so far, in order
    last,           \* the last method call and what it returned or raised
    hist            \* the names of the methods called so far, in order

bvars == <<sid, f_accessed, f_modified, session, storage>>
cvars == <<ck_content, ck_accessed, ck_cleared, ck_type>>
\* what no method of a session object changes
envvars == <<kind, max_age, now, mw, conc>>
vars == <<sid, f_accessed, f_modified, session, storage,
          ck_content, ck_accessed, ck_cleared, ck_type, kind, max_age, now, mw, conc,
          presented, calls, last, hist>>

\* Optional[int] max_age: <<>> is None, <<n>> is n seconds
NoMaxAge == <<>>
MaxAges == {NoMaxAge} \cup {<<n>> : n \in 0..MaxMaxAge}
\* a session object that is not the running one: its fields and the names
\* of the methods called on it so far
Suspended(s, a, m, sess, h) == [sid |-> s, acc |-> a, mod |-> m, session |-> sess, hist |-> h]
\* one request at a time: role is what the running request does ("reader",
\* "writer"), committed the mapping the writer's content read saved
NoConcurrency ==
    [role |-> "none", other |-> Suspended("None", FALSE, FALSE, <<>>, <<>>),
     committed |-> <<>>]
\* SessionMiddleware outside any request
NoRequest ==
    [pc |-> "none", n |-> 0, ops |-> 0, jar |-> <<"None">>, header |-> <<"none">>]

\* ------------------------------------------------------- call observation
Call(fn, s, res) == [fn |-> fn, sid |-> s, res |-> res]
Count(fn) == Cardinality({i \in 1..Len(calls) : calls[i].fn = fn})
Last(op, key, val, ret) == [op |-> op, key |-> key, val |-> val, ret |-> ret]
\* results: <<"value", v>>, <<"KeyError">>, <<"None">>, <<"len", n>>,
\* <<"keys", S>>, <<"content", s>>, <<"RuntimeError">>
KeyError == <<"KeyError">>
RetNone == <<"None">>
KeyOps == {"getitem", "setitem", "delitem", "len", "iter"}
\* mapping calls (clear included) and content reads made so far
NOps == Cardinality({i \in 1..Len(hist) : hist[i] # "content"})
NReads == Cardinality({i \in 1..Len(hist) : hist[i] = "content"})

\* ------------------------------------------------- MemorySessionBackend
load_session(s) ==
    IF s \in DOMAIN storage THEN Some(pickle_loads(storage[s])) ELSE NoSession

save_session(s, m) ==
    [x \in DOMAIN storage \cup {s} |-> IF x = s THEN pickle_dumps(m) ELSE storage[x]]

\* BaseSessionBackend.keep_session does nothing; MemorySessionBackend keeps it
keep_session(s) == storage

\* BaseSessionBackend.new_session: (uuid4().hex, {}); id is the value uuid4 returns
new_session(id) == <<id, EmptyMap>>

\* --------------------------------------------------- BaseBackendSession
sid_exists == sid # None

\* the property raises RuntimeError when a mapping is held without a sid
session_exists_raises == session # NoSession /\ ~sid_exists
session_exists == session # NoSession

accessed == f_accessed \/ f_modified
modified == f_modified

\* The object's fields and what the methods reach through it, as one record;
\* each method below maps it to the record after the call, ret being what
\* the call returned or raised.
Self ==
    [sid |-> sid, acc |-> f_accessed, mod |-> f_modified, session |-> session,
     storage |-> storage, calls |-> calls, ret |-> RetNone]

\* variant: a session opened after a failed join keeps the presented sid
join_or_open_session_keeps_sid(id) ==
    IF session # NoSession
    THEN [sid |-> sid, map |-> session[1], calls |-> calls]
    ELSE LET joined == IF sid # None THEN load_session(sid) ELSE NoSession
             calls1 == IF sid # None
                       THEN Append(calls, Call("load_session", sid, joined))
                       ELSE calls
         IN  IF joined # NoSession
             THEN [sid |-> sid, map |-> joined[1], calls |-> calls1]
             ELSE LET opened == new_session(id)
                  IN  [sid |-> IF sid # None THEN sid ELSE opened[1], map |-> opened[2],
                       calls |-> Append(calls1,
                                        Call("new_session", opened[1], Some(opened[2])))]

\* variant: a session opened by new_session is not bound to the new sid
join_or_open_session_drops_sid(id) ==
    IF session # NoSession
    THEN [sid |-> sid, map |-> session[1], calls |-> calls]
    ELSE LET joined == IF sid # None THEN load_session(sid) ELSE NoSession
             calls1 == IF sid # None
                       THEN Append(calls, Call("load_session", sid, joined))
                       ELSE calls
         IN  IF joined # NoSession
             THEN [sid |-> sid, map |-> joined[1], calls |-> calls1]
             ELSE LET opened == new_session(id)
                  IN  [sid |-> sid, map |-> opened[2],
                       calls |-> Append(calls1,
                                        Call("new_session", opened[1], Some(opened[2])))]

\* variant: no check that the mapping is already held, every call joins again
join_or_open_session_reloads(id) ==
    LET joined == IF sid # None THEN load_session(sid) ELSE NoSession
        calls1 == IF sid # None
                  THEN Append(calls, Call("load_session", sid, joined))
                  ELSE calls
    IN  IF joined # NoSession
        THEN [sid |-> sid, map |-> joined[1], calls |-> calls1]
        ELSE LET opened == new_session(id)
             IN  [sid |-> opened[1], map |-> opened[2],
                  calls |-> Append(calls1,
                                   Call("new_session", opened[1], Some(opened[2])))]

\* __join_or_open_session: the sid, the mapping and the backend calls after
\* it; id is what uuid4 returns should new_session be called
join_or_open_session(id) ==
    IF session # NoSession
    THEN [sid |-> sid, map |-> session[1], calls |-> calls]
    ELSE LET joined == IF sid # None THEN load_session(sid) ELSE NoSession
             calls1 == IF sid # None
                       THEN Append(calls, Call("load_session", sid, joined))
                       ELSE calls
         IN  IF joined # NoSession
             THEN [sid |-> sid, map |-> joined[1], calls |-> calls1]
             ELSE LET opened == new_session(id)
                  IN  [sid |-> opened[1], map |-> opened[2],
                       calls |-> Append(calls1,
                                        Call("new_session", opened[1], Some(opened[2])))]

\* variant: _accessed is set after the sid check instead of before it
getitem_access_after_check(key, id) ==
    IF ~sid_exists
    THEN [Self EXCEPT !.ret = KeyError]
    ELSE LET j == join_or_open_session(id)
         IN  [Self EXCEPT !.acc = TRUE, !.sid = j.sid, !.session = Some(j.map),
                          !.calls = j.calls,
                          !.ret = IF key \in DOMAIN j.map
                                  THEN <<"value", j.map[key]>> ELSE KeyError]

getitem(key, id) ==
    IF ~sid_exists
    THEN [Self EXCEPT !.acc = TRUE, !.ret = KeyError]
    ELSE LET j == join_or_open_session(id)
         IN  [Self EXCEPT !.acc = TRUE, !.sid = j.sid, !.session = Some(j.map),
                          !.calls = j.calls,
                          !.ret = IF key \in DOMAIN j.map
                                  THEN <<"value", j.map[key]>> ELSE KeyError]

\* variant: a write is committed to the store at once
setitem_writes_through(key, value, id) ==
    LET j == join_or_open_session(id)
        m == DictSet(j.map, key, value)
    IN  [Self EXCEPT !.acc = TRUE, !.sid = j.sid, !.session = Some(m),
                     !.storage = save_session(j.sid, m),
                     !.calls = Append(j.calls, Call("save_session", j.sid, Some(m))),
                     !.mod = TRUE]

setitem(key, value, id) ==
    LET j == join_or_open_session(id)
    IN  [Self EXCEPT !.acc = TRUE, !.sid = j.sid,
                     !.session = Some(DictSet(j.map, key, value)),
                     !.calls = j.calls, !.mod = TRUE]

delitem(key, id) ==
    IF ~sid_exists
    THEN [Self EXCEPT !.acc = TRUE, !.ret = KeyError]
    ELSE LET j == join_or_open_session(id)
         IN  IF key \in DOMAIN j.map
             THEN [Self EXCEPT !.acc = TRUE, !.sid = j.sid,
                               !.session = Some(DictDel(j.map, key)),
                               !.calls = j.calls, !.mod = TRUE]
             ELSE [Self EXCEPT !.acc = TRUE, !.sid = j.sid, !.session = Some(j.map),
                               !.calls = j.calls, !.ret = KeyError]

\* __len__ computes len() of the joined mapping, drops it and returns 0
len(id) ==
    IF sid_exists
    THEN LET j == join_or_open_session(id)
         IN  [Self EXCEPT !.acc = TRUE, !.sid = j.sid, !.session = Some(j.map),
                          !.calls = j.calls, !.ret = <<"len", 0>>]
    ELSE [Self EXCEPT !.acc = TRUE, !.ret = <<"len", 0>>]

\* variant: no sid check, iteration always joins or opens
iter_always_joins(id) ==
    LET j == join_or_open_session(id)
    IN  [Self EXCEPT !.acc = TRUE, !.sid = j.sid, !.session = Some(j.map),
                     !.calls = j.calls, !.ret = <<"keys", DOMAIN j.map>>]

\* variant: iteration only marks the session accessed and yields what is held
iter_without_join(id) ==
    [Self EXCEPT !.acc = TRUE,
                 !.ret = <<"keys", IF session # NoSession THEN DOMAIN session[1] ELSE {}>>]

\* __iter__: the keys the returned iterator yields
iter(id) ==
    IF sid_exists
    THEN LET j == join_or_open_session(id)
         IN  [Self EXCEPT !.acc = TRUE, !.sid = j.sid, !.session = Some(j.map),
                          !.calls = j.calls, !.ret = <<"keys", DOMAIN j.map>>]
    ELSE [Self EXCEPT !.acc = TRUE, !.ret = <<"keys", {}>>]

\* variant: clear marks the session modified whether or not it is materialized
clear_marks_unmaterialized ==
    IF session_exists_raises THEN [Self EXCEPT !.ret = <<"RuntimeError">>]
    ELSE IF session_exists
    THEN [Self EXCEPT !.session = Some(EmptyMap), !.mod = TRUE]
    ELSE [Self EXCEPT !.mod = TRUE]

clear ==
    IF session_exists_raises THEN [Self EXCEPT !.ret = <<"RuntimeError">>]
    ELSE IF session_exists
    THEN [Self EXCEPT !.session = Some(EmptyMap), !.mod = TRUE]
    ELSE Self

\* variant: an unmodified session is touched, not committed
content_skips_unmodified ==
    IF session_exists_raises THEN [Self EXCEPT !.ret = <<"RuntimeError">>]
    ELSE IF session_exists /\ f_modified
    THEN [Self EXCEPT !.storage = save_session(sid, session[1]),
                      !.calls = Append(calls, Call("save_session", sid, session)),
                      !.ret = <<"content", sid>>]
    ELSE IF sid_exists
    THEN [Self EXCEPT !.storage = keep_session(sid),
                      !.calls = Append(calls, Call("keep_session", sid, NoSession)),
                      !.ret = <<"content", sid>>]
    ELSE [Self EXCEPT !.ret = <<"content", sid>>]

\* the content property, with StandardBackendSession's _commit_session and
\* _touch_session
content ==
    IF session_exists_raises THEN [Self EXCEPT !.ret = <<"RuntimeError">>]
    ELSE IF session_exists
    THEN [Self EXCEPT !.storage = save_session(sid, session[1]),
                      !.calls = Append(calls, Call("save_session", sid, session)),
                      !.ret = <<"content", sid>>]
    ELSE IF sid_exists
    THEN [Self EXCEPT !.storage = keep_session(sid),
                      !.calls = Append(calls, Call("keep_session", sid, NoSession)),
                      !.ret = <<"content", sid>>]
    ELSE [Self EXCEPT !.ret = <<"content", sid>>]

\* BaseSessionBackend.__call__(sid) on a MemorySessionBackend that already
\* holds any entries for the identifiers in StoredSids
BInit ==
    /\ presented \in Sids \cup {None}
    /\ sid = presented
    /\ f_accessed = FALSE
    /\ f_modified = FALSE
    /\ session = NoSession
    /\ \E D \in SUBSET StoredSids : \E f \in [D -> Mappings] :
          storage = [s \in D |-> pickle_dumps(f[s])]
    /\ ck_content = EmptyMap
    /\ ck_accessed = FALSE
    /\ ck_cleared = FALSE
    /\ ck_type = "dict"
    /\ kind = "memory"
    /\ max_age = NoMaxAge
    /\ now = 0
    /\ mw = NoRequest
    /\ conc = NoConcurrency
    /\ calls = <<>>
    /\ last = Last("init", None, 0, RetNone)
    /\ hist = <<>>

\* what a method call leaves in the Bound Session and in the observation:
\* r is the record the method returns
BApply(op, key, val, r) ==
    /\ sid' = r.sid
    /\ f_accessed' = r.acc
    /\ f_modified' = r.mod
    /\ session' = r.session
    /\ storage' = r.storage
    /\ calls' = r.calls
    /\ last' = Last(op, key, val, r.ret)
    /\ UNCHANGED presented
    /\ UNCHANGED cvars

\* one method call on the Bound Session
BStep(op, key, val, r) ==
    /\ BApply(op, key, val, r)
    /\ UNCHANGED envvars

BOp(op, key, val, r) ==
    /\ NOps < MaxOps
    /\ hist' = Append(hist, op)
    /\ BStep(op, key, val, r)

GetItem == \E k \in Keys, id \in FreshSids : BOp("getitem", k, 0, getitem(k, id))
SetItem == \E k \in Keys, v \in Values, id \in FreshSids : BOp("setitem", k, v, setitem(k, v, id))
DelItem == \E k \in Keys, id \in FreshSids : BOp("delitem", k, 0, delitem(k, id))
Length == \E id \in FreshSids : BOp("len", None, 0, len(id))
Iterate == \E id \in FreshSids : BOp("iter", None, 0, iter(id))
Clear == BOp("clear", None, 0, clear)

Content ==
    /\ NReads < MaxReads
    /\ hist' = Append(hist, "content")
    /\ BStep("content", None, 0, content)

BNext == GetItem \/ SetItem \/ DelItem \/ Length \/ Iterate \/ Clear \/ Content

Spec == BInit /\ [][BNext]_vars

\* ------------------------------------------------- CookieSessionBackend
\* A str or bytes value is modelled by what each stage of the pipeline can
\* tell about it: base64 text or not, UTF-8 or not, the JSON text of a dict,
\* of another JSON value (the array [1] stands for them) or no JSON at all.
\* The JSON text of a dict is the set of its items (the order json.dumps
\* writes them in is not kept: json.loads compares equal).
\* A call that can raise returns Ok(v) or the exception.
ValueError == <<"ValueError">>
TypeError == <<"TypeError">>
IndexError == <<"IndexError">>
Ok(v) == <<"ok", v>>
Raised(r) == r[1] # "ok"

json_dump_bytes(m) == <<"utf8", <<"dict", {<<k, m[k]>> : k \in DOMAIN m}>>>>

\* json.loads returns whatever value the text holds: a dict for an object,
\* a list for an array
json_load_bytes(b) ==
    IF b[1] # "utf8" THEN ValueError               \* UnicodeDecodeError
    ELSE IF b[2][1] = "dict"
    THEN Ok([k \in {p[1] : p \in b[2][2]} |-> (CHOOSE p \in b[2][2] : p[1] = k)[2]])
    ELSE IF b[2][1] = "list" THEN Ok(b[2][2])
    ELSE ValueError                                 \* json.JSONDecodeError

urlsafe_b64encode(b) == <<"b64", b>>
urlsafe_b64decode(s) == IF s[1] = "b64" THEN Ok(s[2]) ELSE ValueError   \* binascii.Error

\* ------------------------------------------- SignedCookieSessionBackend
\* itsdangerous.TimestampSigner(secret_key): sign(value) appends the time of
\* signing and a keyed signature over value and time; unsign(value, max_age)
\* raises BadSignature when the value has no signature or the signature does
\* not match, and SignatureExpired (a BadSignature) when max_age is given and
\* the age exceeds it.  The backend turns BadSignature into ValueError.
SecretKey == "secret"
Hmac(key, b, ts) == <<"hmac", key, b, ts>>
\* variant: every token carries the time 0 instead of the time of signing
timestamper_sign_at_zero(b, t) == <<"signed", b, 0, Hmac(SecretKey, b, 0)>>

timestamper_sign(b, t) == <<"signed", b, t, Hmac(SecretKey, b, t)>>

\* variant: the age is not checked
timestamper_unsign_no_expiry(b, ma, t) ==
    IF b[1] # "signed" THEN ValueError
    ELSE IF b[4] # Hmac(SecretKey, b[2], b[3]) THEN ValueError
    ELSE Ok(b[2])

\* variant: the signature is checked over the payload alone
timestamper_unsign_payload_only(b, ma, t) ==
    IF b[1] # "signed" THEN ValueError
    ELSE IF b[4][2] # SecretKey \/ b[4][3] # b[2] THEN ValueError
    ELSE IF ma # NoMaxAge /\ t - b[3] > ma[1] THEN ValueError
    ELSE Ok(b[2])

\* unsign at time t
timestamper_unsign(b, ma, t) ==
    IF b[1] # "signed" THEN ValueError
    ELSE IF b[4] # Hmac(SecretKey, b[2], b[3]) THEN ValueError
    ELSE IF ma # NoMaxAge /\ t - b[3] > ma[1] THEN ValueError
    ELSE Ok(b[2])

\* sign_content / unsign_content: CookieSessionBackend returns the bytes
\* unchanged, SignedCookieSessionBackend overrides both
sign_content(b) == IF kind = "signed" THEN timestamper_sign(b, now) ELSE b
unsign_content_at(b, t) ==
    IF kind = "signed" THEN timestamper_unsign(b, max_age, t) ELSE Ok(b)
unsign_content(b) == unsign_content_at(b, now)

\* variant: the serialized bytes are encoded without being signed
save_content_unsigned(m) == urlsafe_b64encode(json_dump_bytes(m))

save_content(m) == urlsafe_b64encode(sign_content(json_dump_bytes(m)))

\* the try block of load_content, run at time t: Ok(value) or the exception
load_content_try(s, t) ==
    LET decoded == urlsafe_b64decode(s)
        unsigned == IF Raised(decoded) THEN decoded ELSE unsign_content_at(decoded[2], t)
    IN  IF Raised(unsigned) THEN unsigned ELSE json_load_bytes(unsigned[2])

load_content_at(s, t) ==
    LET deserialized == load_content_try(s, t)
    IN  IF Raised(deserialized) THEN EmptyMap ELSE deserialized[2]

load_content(s) == load_content_at(s, now)

\* the Python type of the value load_content returns for s
loaded_type(s) ==
    LET decoded == urlsafe_b64decode(s)
        unsigned == IF Raised(decoded) THEN decoded ELSE unsign_content(decoded[2])
    IN  IF Raised(unsigned) \/ Raised(load_content_try(s, now)) THEN "dict"
        ELSE IF unsigned[2][2][1] = "list" THEN "list" ELSE "dict"

\* Optional[str] of a cookie value: no cookie
NoToken == <<"None">>

\* cookie values that are no token of any backend
NotB64 == <<"notb64">>
NotUtf8 == <<"b64", <<"notutf8">>>>
NotJson == <<"b64", <<"utf8", <<"notjson">>>>>>
JsonList == <<"b64", <<"utf8", <<"list", <<1>>>>>>>>
\* the token of mapping m, signed at time ts with key
SignedToken(m, ts, key) ==
    <<"b64", <<"signed", json_dump_bytes(m), ts, Hmac(key, json_dump_bytes(m), ts)>>>>
\* a signed token with its payload, its timestamp or its signature altered
PayloadTampered(m, m2, ts) ==
    <<"b64", <<"signed", json_dump_bytes(m2), ts, Hmac(SecretKey, json_dump_bytes(m), ts)>>>>
TimeTampered(m, ts, ts2) ==
    <<"b64", <<"signed", json_dump_bytes(m), ts2, Hmac(SecretKey, json_dump_bytes(m), ts)>>>>
SignatureTampered(m, ts) == SignedToken(m, ts, "guess")
\* the mappings the signed tokens of the model carry
TokenMappings == {EmptyMap, [k \in {"a"} |-> 1]}
ValidSignedTokens == {SignedToken(m, ts, SecretKey) : m \in TokenMappings, ts \in 0..now}
TamperedTokens ==
    {PayloadTampered([k \in {"a"} |-> 1], [k \in {"a"} |-> 2], now),
     TimeTampered([k \in {"a"} |-> 1], 0, now),
     SignatureTampered([k \in {"a"} |-> 1], now)}

\* the cookie values a client may present, besides no cookie at all
InboundTokens ==
    IF kind = "signed"
    THEN ValidSignedTokens \cup TamperedTokens
             \cup {NotB64, NotUtf8, NotJson, <<"b64", json_dump_bytes(EmptyMap)>>}
    ELSE {save_content(m) : m \in Mappings} \cup {NotB64, NotUtf8, NotJson, JsonList}

\* ------------------------------------------- StandardCookieBackendSession
CSelf ==
    [content |-> ck_content, acc |-> ck_accessed, cleared |-> ck_cleared, ret |-> RetNone]

\* Each method reaches into self.__content; a list ([1]) answers a str key
\* with TypeError and the index 1 with IndexError.
ck_getitem(key) ==
    IF ck_type = "list" THEN [CSelf EXCEPT !.acc = TRUE, !.ret = TypeError]
    ELSE [CSelf EXCEPT !.acc = TRUE,
                       !.ret = IF key \in DOMAIN ck_content
                               THEN <<"value", ck_content[key]>> ELSE KeyError]

ck_setitem(key, value) ==
    IF ck_type = "list" THEN [CSelf EXCEPT !.acc = TRUE, !.ret = TypeError]
    ELSE [CSelf EXCEPT !.acc = TRUE, !.content = DictSet(ck_content, key, value),
                       !.cleared = FALSE]

ck_delitem(key) ==
    IF ck_type = "list" THEN [CSelf EXCEPT !.acc = TRUE, !.ret = TypeError]
    ELSE IF key \in DOMAIN ck_content
    THEN [CSelf EXCEPT !.acc = TRUE, !.content = DictDel(ck_content, key)]
    ELSE [CSelf EXCEPT !.acc = TRUE, !.ret = KeyError]

ck_len == [CSelf EXCEPT !.acc = TRUE, !.ret = <<"len", Cardinality(DOMAIN ck_content)>>]

\* the keys of a dict, the elements of a list
ck_iter ==
    [CSelf EXCEPT !.acc = TRUE,
                  !.ret = IF ck_type = "list"
                          THEN <<"elements", {ck_content[i] : i \in DOMAIN ck_content}>>
                          ELSE <<"keys", DOMAIN ck_content>>]

\* MutableMapping.clear pops items through __iter__/__getitem__/__delitem__
\* until the mapping is empty; on the list [1] popitem looks up self[1]
ck_clear ==
    IF ck_type = "list" THEN [CSelf EXCEPT !.acc = TRUE, !.ret = IndexError]
    ELSE [CSelf EXCEPT !.acc = TRUE, !.content = EmptyMap, !.cleared = TRUE]

\* variant: an empty mapping reads as no cookie
ck_content_read_none_when_empty ==
    IF ck_cleared \/ ck_content = EmptyMap
    THEN [CSelf EXCEPT !.ret = <<"content", NoToken>>]
    ELSE [CSelf EXCEPT !.acc = TRUE, !.ret = <<"content", save_content(ck_content)>>]

\* the content property; dict(self) walks the session through keys() and
\* __getitem__, so __iter__ sets __accessed; on the list [1] it looks up
\* self[1]
ck_content_read ==
    IF ck_cleared
    THEN [CSelf EXCEPT !.ret = <<"content", NoToken>>]
    ELSE IF ck_type = "list" THEN [CSelf EXCEPT !.acc = TRUE, !.ret = IndexError]
    ELSE [CSelf EXCEPT !.acc = TRUE, !.ret = <<"content", save_content(ck_content)>>]

ck_accessed_read == ck_accessed

\* BaseCookieSessionBackend.get_max_age
ck_max_age_read == max_age

\* StandardCookieBackendSession.__init__(backend, content): the fields
cookie_new(token) ==
    [content |-> IF token # NoToken THEN load_content(token) ELSE EmptyMap,
     type |-> IF token # NoToken THEN loaded_type(token) ELSE "dict",
     acc |-> FALSE, cleared |-> FALSE]

\* a cookie session just constructed from token, no Bound Session around
CNew(token) ==
    /\ presented = token
    /\ ck_content = cookie_new(token).content
    /\ ck_type = cookie_new(token).type
    /\ ck_accessed = cookie_new(token).acc
    /\ ck_cleared = cookie_new(token).cleared
    /\ sid = None
    /\ f_accessed = FALSE
    /\ f_modified = FALSE
    /\ session = NoSession
    /\ storage = EmptyMap
    /\ calls = <<>>
    /\ last = Last("init", None, 0, RetNone)
    /\ hist = <<>>

\* CookieSessionBackend.__call__(content)
CInit ==
    /\ kind = "cookie"
    /\ max_age = NoMaxAge
    /\ now = 0
    /\ mw = NoRequest
    /\ conc = NoConcurrency
    /\ \E token \in InboundTokens \cup {NoToken} : CNew(token)

\* SignedCookieSessionBackend.__call__(content), MaxTime seconds after the
\* first token was signed
SInit ==
    /\ kind = "signed"
    /\ max_age \in MaxAges
    /\ now = MaxTime
    /\ mw = NoRequest
    /\ conc = NoConcurrency
    /\ \E token \in InboundTokens \cup {NoToken} : CNew(token)

CApply(op, key, val, r) ==
    /\ ck_content' = r.content
    /\ ck_accessed' = r.acc
    /\ ck_cleared' = r.cleared
    /\ last' = Last(op, key, val, r.ret)
    /\ UNCHANGED <<presented, calls, ck_type>>
    /\ UNCHANGED bvars

CStep(op, key, val, r) ==
    /\ CApply(op, key, val, r)
    /\ UNCHANGED envvars

COp(op, key, val, r) ==
    /\ NOps < MaxOps
    /\ hist' = Append(hist, op)
    /\ CStep(op, key, val, r)

CkGetItem == \E k \in Keys : COp("getitem", k, 0, ck_getitem(k))
CkSetItem == \E k \in Keys, v \in Values : COp("setitem", k, v, ck_setitem(k, v))
CkDelItem == \E k \in Keys : COp("delitem", k, 0, ck_delitem(k))
CkLength == COp("len", None, 0, ck_len)
CkIterate == COp("iter", None, 0, ck_iter)
CkClear == COp("clear", None, 0, ck_clear)

CkContent ==
    /\ NReads < MaxReads
    /\ hist' = Append(hist, "content")
    /\ CStep("content", None, 0, ck_content_read)

CNext == CkGetItem \/ CkSetItem \/ CkDelItem \/ CkLength \/ CkIterate \/ CkClear \/ CkContent

CookieSpec == CInit /\ [][CNext]_vars

SignedSpec == SInit /\ [][CNext]_vars

\* the sessions of both self-contained backends
SelfContainedSpec == (CInit \/ SInit) /\ [][CNext]_vars

\* ------------------------------------------------------- SessionMiddleware
\* A client sends requests one after the other, each with the cookie it
\* holds; the application's handler works on scope["session"] and the
\* response starts once.  mw.ops counts the mapping calls of the requests
\* already answered: MaxOps bounds the calls of all requests together.
Requests == {1, 2}
\* the key and the value the handlers use
MwKey == "a"
MwValue == 1
MwMapping == [k \in {MwKey} |-> MwValue]

\* the cookie value of a Bound Session's content (a sid or None), and back
SidCookie(s) == IF s = None THEN NoToken ELSE <<"sid", s>>
CookieSid(c) == IF c = NoToken THEN None ELSE c[2]

\* session.accessed and session.max_age of the session in scope;
\* MemorySessionBackend.get_max_age returns None
MwAccessed == IF kind = "memory" THEN accessed ELSE ck_accessed_read
MwMaxAge == IF kind = "memory" THEN NoMaxAge ELSE ck_max_age_read

\* uuid4().hex: an identifier the store does not know
uuid4 == CHOOSE id \in FreshSids : id \notin DOMAIN storage

\* the cookies the client may hold before its first request
FirstCookies ==
    IF kind = "memory" THEN {NoToken} \cup {SidCookie(s) : s \in Sids}
    ELSE IF kind = "cookie" THEN {NoToken, save_content(MwMapping), NotJson, JsonList}
    ELSE {NoToken, SignedToken(MwMapping, 0, SecretKey),
          SignatureTampered(MwMapping, 0), <<"b64", json_dump_bytes(MwMapping)>>}

\* SessionMiddleware(app, backend) with one of the three backends, no
\* request made yet
MwInit ==
    /\ kind \in {"memory", "cookie", "signed"}
    /\ max_age \in IF kind = "memory" THEN {NoMaxAge} ELSE MaxAges
    /\ now = 0
    /\ storage \in IF kind = "memory"
                   THEN {EmptyMap, [s \in StoredSids |-> pickle_dumps(MwMapping)]}
                   ELSE {EmptyMap}
    /\ \E jar \in FirstCookies : mw = [NoRequest EXCEPT !.jar = jar]
    /\ conc = NoConcurrency
    /\ presented = IF kind = "memory" THEN None ELSE NoToken
    /\ sid = None
    /\ f_accessed = FALSE
    /\ f_modified = FALSE
    /\ session = NoSession
    /\ ck_content = EmptyMap
    /\ ck_type = "dict"
    /\ ck_accessed = FALSE
    /\ ck_cleared = FALSE
    /\ calls = <<>>
    /\ last = Last("init", None, 0, RetNone)
    /\ hist = <<>>

\* __call__ up to the call of the application: the cookie is read and
\* scope["session"] = self.backend(cookie_value)
MwRequest ==
    /\ mw.pc = "none"
    /\ mw.n + 1 \in Requests
    /\ mw' = [mw EXCEPT !.pc = "app", !.n = @ + 1, !.ops = @ + NOps, !.header = <<"none">>]
    /\ IF kind = "memory"
       THEN /\ presented' = CookieSid(mw.jar)
            /\ sid' = CookieSid(mw.jar)
            /\ f_accessed' = FALSE
            /\ f_modified' = FALSE
            /\ session' = NoSession
            /\ UNCHANGED storage
            /\ UNCHANGED cvars
       ELSE /\ presented' = mw.jar
            /\ ck_content' = cookie_new(mw.jar).content
            /\ ck_type' = cookie_new(mw.jar).type
            /\ ck_accessed' = cookie_new(mw.jar).acc
            /\ ck_cleared' = cookie_new(mw.jar).cleared
            /\ UNCHANGED bvars
    /\ calls' = <<>>
    /\ last' = Last("init", None, 0, RetNone)
    /\ hist' = <<>>
    /\ UNCHANGED <<kind, max_age, now, conc>>

\* the handler may make another mapping call
MwHandler == mw.pc = "app" /\ mw.ops + NOps < MaxOps

MwGetItem ==
    /\ MwHandler
    /\ IF kind = "memory" THEN BOp("getitem", MwKey, 0, getitem(MwKey, uuid4))
       ELSE COp("getitem", MwKey, 0, ck_getitem(MwKey))
MwSetItem ==
    /\ MwHandler
    /\ IF kind = "memory" THEN BOp("setitem", MwKey, MwValue, setitem(MwKey, MwValue, uuid4))
       ELSE COp("setitem", MwKey, MwValue, ck_setitem(MwKey, MwValue))
MwDelItem ==
    /\ MwHandler
    /\ IF kind = "memory" THEN BOp("delitem", MwKey, 0, delitem(MwKey, uuid4))
       ELSE COp("delitem", MwKey, 0, ck_delitem(MwKey))
MwLength ==
    /\ MwHandler
    /\ IF kind = "memory" THEN BOp("len", None, 0, len(uuid4)) ELSE COp("len", None, 0, ck_len)
MwIterate ==
    /\ MwHandler
    /\ IF kind = "memory" THEN BOp("iter", None, 0, iter(uuid4)) ELSE COp("iter", None, 0, ck_iter)
MwClear ==
    /\ MwHandler
    /\ IF kind = "memory" THEN BOp("clear", None, 0, clear) ELSE COp("clear", None, 0, ck_clear)

\* send_wrapper on the http.response.start message.  header is <<"none">>
\* when no Set-Cookie header is appended, <<"Set-Cookie", content, max_age>>
\* when one is (max_age <<>> when the Max-Age attribute is left out), and
\* <<"raised", e>> when the content read raised e and no message was sent.
\* The client keeps the cookie it is sent and drops it when the content is
\* None.
MwResponseStart ==
    /\ mw.pc = "app"
    /\ IF ~MwAccessed
       THEN /\ mw' = [mw EXCEPT !.pc = "none"]
            /\ UNCHANGED <<bvars, cvars, presented, calls, last, hist>>
       ELSE LET r == IF kind = "memory" THEN content ELSE ck_content_read
                cookie_content == IF kind = "memory" THEN SidCookie(r.ret[2]) ELSE r.ret[2]
                cookie_max_age == IF cookie_content # NoToken THEN MwMaxAge ELSE <<0>>
            IN  /\ hist' = Append(hist, "content")
                /\ IF kind = "memory" THEN BApply("content", None, 0, r)
                   ELSE CApply("content", None, 0, r)
                /\ mw' = IF r.ret[1] # "content"
                         THEN [mw EXCEPT !.pc = "none", !.header = <<"raised", r.ret[1]>>]
                         ELSE [mw EXCEPT !.pc = "none", !.jar = cookie_content,
                                         !.header = <<"Set-Cookie", cookie_content,
                                                      cookie_max_age>>]
    /\ UNCHANGED <<kind, max_age, now, conc>>

\* a second passes; only the signed backend reads the clock
Tick ==
    /\ kind = "signed"
    /\ now < MaxTime
    /\ now' = now + 1
    /\ UNCHANGED <<bvars, cvars, kind, max_age, mw, conc, presented, calls, last, hist>>

MwNext ==
    \/ MwRequest \/ MwGetItem \/ MwSetItem \/ MwDelItem \/ MwLength \/ MwIterate
    \/ MwClear \/ MwResponseStart \/ Tick

MwSpec == MwInit /\ [][MwNext]_vars

\* ---------------------------------------------------- concurrent requests
\* Two requests present the same sid to one MemorySessionBackend.  Each owns
\* the session object the backend's __call__ made for it; the handlers
\* suspend between their calls, so the calls of the two requests interleave
\* in any order.  The reader's handler only gets, iterates and takes the
\* length; each request ends with its content read.  MaxOps bounds the
\* mapping calls of both requests together.
ConcSid == "s1"
Finished(h) == \E i \in 1..Len(h) : h[i] = "content"
OtherOps == Cardinality({i \in 1..Len(conc.other.hist) : conc.other.hist[i] # "content"})
\* the running request's handler may make another mapping call
ConcHandler == ~Finished(hist) /\ OtherOps + NOps < MaxOps

\* two backend(sid) calls on a store that holds a mapping for the sid
ConcInit ==
    /\ kind = "memory"
    /\ max_age = NoMaxAge
    /\ now = 0
    /\ mw = NoRequest
    /\ \E role \in {"reader", "writer"} :
          conc = [role |-> role,
                  other |-> Suspended(ConcSid, FALSE, FALSE, NoSession, <<>>),
                  committed |-> NoSession]
    /\ presented = ConcSid
    /\ sid = ConcSid
    /\ f_accessed = FALSE
    /\ f_modified = FALSE
    /\ session = NoSession
    /\ \E m \in Mappings : storage = [s \in {ConcSid} |-> pickle_dumps(m)]
    /\ ck_content = EmptyMap
    /\ ck_type = "dict"
    /\ ck_accessed = FALSE
    /\ ck_cleared = FALSE
    /\ calls = <<>>
    /\ last = Last("init", None, 0, RetNone)
    /\ hist = <<>>

ConcGetItem == ConcHandler /\ GetItem
ConcLength == ConcHandler /\ Length
ConcIterate == ConcHandler /\ Iterate
ConcSetItem == ConcHandler /\ conc.role = "writer" /\ SetItem
ConcDelItem == ConcHandler /\ conc.role = "writer" /\ DelItem
ConcClear == ConcHandler /\ conc.role = "writer" /\ Clear

\* the terminal content read of the running request
ConcContent ==
    /\ ~Finished(hist)
    /\ hist' = Append(hist, "content")
    /\ BApply("content", None, 0, content)
    /\ conc' = IF conc.role = "writer" THEN [conc EXCEPT !.committed = session] ELSE conc
    /\ UNCHANGED <<kind, max_age, now, mw>>

\* the running request suspends and the other one resumes
ConcSwitch ==
    /\ ~Finished(conc.other.hist)
    /\ sid' = conc.other.sid
    /\ f_accessed' = conc.other.acc
    /\ f_modified' = conc.other.mod
    /\ session' = conc.other.session
    /\ hist' = conc.other.hist
    /\ conc' = [conc EXCEPT !.role = IF @ = "reader" THEN "writer" ELSE "reader",
                            !.other = Suspended(sid, f_accessed, f_modified, session, hist)]
    /\ UNCHANGED <<storage, presented, calls, last, kind, max_age, now, mw>>
    /\ UNCHANGED cvars

ConcNext ==
    \/ ConcGetItem \/ ConcLength \/ ConcIterate \/ ConcSetItem \/ ConcDelItem
    \/ ConcClear \/ ConcContent \/ ConcSwitch

ConcSpec == ConcInit /\ [][ConcNext]_vars

\* ------------------------------------------------------------- properties
\* this step is a call of method op
Called(op) == hist' = Append(hist, op)
KeyOpCalled == \E op \in KeyOps : Called(op)
\* the mapping m after the method call recorded in l acted on it
Effect(m, l) ==
    IF l.op = "setitem" THEN DictSet(m, l.key, l.val)
    ELSE IF l.op = "delitem" THEN DictDel(m, l.key)
    ELSE IF l.op = "clear" THEN EmptyMap
    ELSE m
\* the session was constructed with a sid the store has an entry for (the
\* store gets an entry for the presented sid in no other way: sessions that
\* fail to join are given another sid)
ValidToken == presented # None /\ presented \in DOMAIN storage
Issued == {calls[i].sid : i \in {j \in 1..Len(calls) : calls[j].fn = "new_session"}}

\* C1: join-or-create.  The first get/set/delete/iterate/length call on a
\* session constructed with a sid calls load_session(sid); when that returns
\* a mapping, the mapping (after the call's own effect) is the content and
\* the sid is unchanged; when it returns not-found, new_session() is called,
\* the sid becomes the identifier it issued, the content is the empty mapping
\* (after the call's own effect), and a content read from then on returns
\* the issued identifier, which is not the presented one.
C1_JoinOrCreate ==
    /\ [][(session = NoSession /\ sid # None /\ KeyOpCalled) =>
            LET n == Len(calls)
                loaded == load_session(sid)
            IN  /\ Len(calls') > n
                /\ calls'[n + 1] = Call("load_session", sid, loaded)
                /\ loaded # NoSession =>
                      /\ Len(calls') = n + 1
                      /\ sid' = sid
                      /\ session' = Some(Effect(loaded[1], last'))
                /\ loaded = NoSession =>
                      /\ Len(calls') = n + 2
                      /\ calls'[n + 2].fn = "new_session"
                      /\ sid' = calls'[n + 2].sid
                      /\ sid' # sid
                      /\ session' = Some(Effect(EmptyMap, last'))]_vars
    /\ [](Issued # {} =>
            /\ Issued = {sid}
            /\ sid # presented
            /\ last.op = "content" => last.ret = <<"content", sid>>)

\* a session presented with an unknown sid was given a new one, and the
\* content read returned it
C1_Witness ==
    /\ presented # None
    /\ hist = <<"getitem", "content">>
    /\ Len(calls) = 3
    /\ calls[1] = Call("load_session", presented, NoSession)
    /\ calls[2].fn = "new_session"
    /\ last.ret = <<"content", calls[2].sid>>
    /\ last.ret[2] # presented

\* C2: the content read.  With the content materialized it makes exactly one
\* backend call, save_session(sid, current content), and returns the sid;
\* with a sid and no materialized content it makes exactly one call,
\* keep_session(sid), and returns the sid; with no sid it makes no backend
\* call and returns None.
C2_TerminalContentRead ==
    [][Called("content") =>
         /\ session # NoSession =>
               /\ calls' = Append(calls, Call("save_session", sid, session))
               /\ sid # None
               /\ last'.ret = <<"content", sid>>
         /\ (session = NoSession /\ sid # None) =>
               /\ calls' = Append(calls, Call("keep_session", sid, NoSession))
               /\ last'.ret = <<"content", sid>>
         /\ sid = None =>
               /\ calls' = calls
               /\ storage' = storage
               /\ last'.ret = <<"content", None>>]_vars

\* an unmodified, materialized session was committed by the content read
C2_Witness ==
    /\ last.op = "content"
    /\ ~f_modified
    /\ session # NoSession
    /\ calls[Len(calls)] = Call("save_session", sid, session)

\* C3: on a session constructed without a sid, get, delete, iterate, length
\* and clear make no backend call, leave the sid absent and the content
\* unmaterialized, get and delete raise KeyError, iteration yields nothing,
\* and a content read returns None; a set is what allocates an identifier.
C3_NoSidReadsAllocateNothing ==
    /\ [](sid = None => session = NoSession /\ calls = <<>> /\ presented = None)
    /\ [][(sid = None /\ ~Called("setitem")) =>
            /\ sid' = None
            /\ session' = NoSession
            /\ calls' = calls
            /\ storage' = storage
            /\ last'.op \in {"getitem", "delitem"} => last'.ret = KeyError
            /\ last'.op = "iter" => last'.ret = <<"keys", {}>>
            /\ last'.op = "content" => last'.ret = <<"content", None>>]_vars
    /\ [][(sid = None /\ Called("setitem")) =>
            /\ sid' # None
            /\ calls' = <<Call("new_session", sid', Some(EmptyMap))>>]_vars

\* get and delete were called on a session without a sid, then content read
C3_Witness ==
    /\ presented = None
    /\ hist = <<"getitem", "delitem", "content">>
    /\ sid = None
    /\ calls = <<>>
    /\ accessed
    /\ last.ret = <<"content", None>>

\* every method called before the last one was clear
OnlyClearsBeforeLast == \A i \in 1..(Len(hist) - 1) : hist[i] = "clear"

\* C4 as stated: a session constructed with a valid sid whose only
\* interaction is iteration, then read for its content, made exactly one
\* keep_session(sid) call and no load_session and no save_session call.
C4_IterationKeepsAlive ==
    (ValidToken /\ hist = <<"iter", "content">>) =>
        /\ calls = <<Call("keep_session", presented, NoSession)>>
        /\ Count("load_session") = 0
        /\ Count("save_session") = 0

\* C4 amended: the keep-alive path is the one of a session with a valid sid
\* on which no get/set/delete/iterate/length call is made (clear() at most)
\* before the content read: exactly one keep_session(sid), no load, no save.
\* Iteration materializes the content: iteration followed by the content
\* read makes one load_session(sid) and one save_session(sid, loaded
\* mapping) call and no keep_session call.
C4_KeepAliveOnlyWhenUntouched ==
    /\ (ValidToken /\ Len(hist) > 0 /\ hist[Len(hist)] = "content" /\ OnlyClearsBeforeLast) =>
          /\ calls = <<Call("keep_session", presented, NoSession)>>
          /\ last.ret = <<"content", presented>>
    /\ (ValidToken /\ hist = <<"iter", "content">>) =>
          /\ Len(calls) = 2
          /\ calls[1].fn = "load_session" /\ calls[1].sid = presented
          /\ calls[1].res # NoSession
          /\ calls[2] = Call("save_session", presented, calls[1].res)
          /\ Count("keep_session") = 0

\* a valid sid, iteration, then the content read
C4_Witness ==
    /\ ValidToken
    /\ hist = <<"iter", "content">>
    /\ Count("load_session") = 1
    /\ Count("save_session") = 1

\* some get/set/delete/iterate/length call came before the first content read
KeyOpBeforeRead ==
    \E i \in 1..Len(hist) :
        /\ hist[i] \in KeyOps
        /\ \A j \in 1..(i - 1) : hist[j] # "content"

\* C5: persistence happens at the content read only.  No get, set, delete,
\* iterate, length or clear call changes the store or calls save_session or
\* keep_session (so a request that never reads content leaves the store as it
\* was); and for a session with a valid prior token on which at least one
\* get/set/delete/iterate/length call was made, after the single content
\* read save_session has been called exactly once and keep_session never.
C5_PersistOnlyAtContentRead ==
    /\ [][~Called("content") =>
            /\ storage' = storage
            /\ \A i \in (Len(calls) + 1)..Len(calls') :
                  calls'[i].fn \notin {"save_session", "keep_session"}]_vars
    /\ [](NReads = 0 => Count("save_session") = 0 /\ Count("keep_session") = 0)
    /\ []((ValidToken /\ NReads = 1 /\ KeyOpBeforeRead) =>
            Count("save_session") = 1 /\ Count("keep_session") = 0)

\* two calls on a session with a valid token, one of them a write, then the
\* content read: one save
C5_Witness ==
    /\ ValidToken
    /\ hist = <<"getitem", "setitem", "content">>
    /\ Count("save_session") = 1
    /\ storage[presented] = pickle_dumps(session[1])

\* C6: idempotent lazy load.  load_session and new_session are each called
\* at most once on one session object; once the content is materialized it
\* stays materialized, the sid no longer changes, no further load_session or
\* new_session call is made, and each call acts on the mapping held (the
\* content after it is the content before it with the call's own effect).
C6_MaterializedOnce ==
    /\ [](Count("load_session") <= 1 /\ Count("new_session") <= 1)
    /\ [][session # NoSession =>
            /\ session' = Some(Effect(session[1], last'))
            /\ sid' = sid
            /\ \A i \in (Len(calls) + 1)..Len(calls') :
                  calls'[i].fn \notin {"load_session", "new_session"}]_vars

\* a written key was read back from the held mapping, with one load so far
C6_Witness ==
    /\ hist = <<"setitem", "getitem">>
    /\ last.ret[1] = "value"
    /\ calls = <<Call("load_session", presented, calls[1].res)>>
    /\ ValidToken
    /\ sid = presented

\* the keys iterating the session yields in the present state
IterKeys == iter(CHOOSE id \in FreshSids : TRUE).ret[2]

\* C7: the length of a Bound Session is the number of keys iterating it
\* yields: what a length call returned equals the number of keys an
\* iteration made right after it yields (so it is at least 1 after a set).
C7_LenCountsKeys ==
    last.op = "len" => last.ret = <<"len", Cardinality(IterKeys)>>

\* C8: access tracking.  Every get/set/delete/iterate/length call leaves
\* accessed true, KeyError or not; accessed never goes back to false;
\* modified implies accessed in every state; get, iterate and length never
\* turn modified on.
C8_AccessTracking ==
    /\ [][KeyOpCalled => accessed']_vars
    /\ [][accessed => accessed']_vars
    /\ [](modified => accessed)
    /\ [][(Called("getitem") \/ Called("iter") \/ Called("len")) =>
            (modified' = modified)]_vars
    /\ [](((\A i \in 1..Len(hist) : hist[i] \in {"getitem", "iter", "len"}) /\ hist # <<>>) =>
            accessed /\ ~modified)

\* a get on a session without a sid raised KeyError and left it accessed
C8_Witness ==
    /\ hist = <<"getitem">>
    /\ last.ret = KeyError
    /\ sid = None
    /\ accessed
    /\ ~modified

\* C9: clear().  With the content materialized it empties the content, sets
\* modified, keeps the sid and makes no backend call, and a content read
\* right after it saves the empty mapping under that sid; with the content
\* not materialized it changes nothing: no backend call, sid, accessed and
\* modified as before.
C9_Clear ==
    /\ [][Called("clear") =>
            IF session # NoSession
            THEN /\ session' = Some(EmptyMap)
                 /\ modified'
                 /\ sid' = sid
                 /\ calls' = calls
                 /\ storage' = storage
            ELSE /\ session' = NoSession
                 /\ sid' = sid
                 /\ accessed' = accessed
                 /\ modified' = modified
                 /\ f_accessed' = f_accessed
                 /\ calls' = calls
                 /\ storage' = storage]_vars
    /\ [][(Called("content") /\ last.op = "clear" /\ session # NoSession) =>
            /\ calls' = Append(calls, Call("save_session", sid, Some(EmptyMap)))
            /\ sid' = sid
            /\ sid \in DOMAIN storage'
            /\ pickle_loads(storage'[sid]) = EmptyMap]_vars

\* a joined session that held keys was cleared and then saved empty
C9_Witness ==
    /\ hist = <<"iter", "clear", "content">>
    /\ ValidToken
    /\ Len(calls) = 2
    /\ calls[1].fn = "load_session"
    /\ calls[1].res # Some(EmptyMap)
    /\ calls[1].res # NoSession
    /\ modified
    /\ storage[presented] = pickle_dumps(EmptyMap)

\* no mapping call was made on the session (content reads at most)
Untouched == \A i \in 1..Len(hist) : hist[i] = "content"

\* C10 as stated: a cookie session constructed with no prior token and on
\* which no operation is performed has accessed false and its content reads
\* as no cookie (None).
C10_UntouchedCookieReadsNone ==
    (presented = NoToken /\ Untouched) =>
        /\ hist = <<>> => ~ck_accessed_read
        /\ last.op = "content" => last.ret = <<"content", NoToken>>

\* C10 amended: a cookie session constructed with no prior token and on
\* which no operation is performed has accessed false as long as content is
\* not read, and its content reads as the token that save_content gives for
\* the empty mapping, never as no cookie; the content read itself leaves
\* accessed true.
C10_UntouchedCookieReadsEmptyToken ==
    (presented = NoToken /\ Untouched) =>
        /\ ck_content = EmptyMap
        /\ hist = <<>> => ~ck_accessed_read
        /\ last.op = "content" =>
              /\ last.ret = <<"content", save_content(EmptyMap)>>
              /\ last.ret[2] # NoToken
              /\ load_content(last.ret[2]) = EmptyMap
              /\ ck_accessed_read

\* no prior token, no operation, content read once
C10_Witness ==
    /\ presented = NoToken
    /\ hist = <<"content">>
    /\ last.ret[1] = "content"
    /\ last.ret[2] # NoToken

\* the token passes every stage of this backend's pipeline at this moment
\* and carries a mapping
WellFormed(token) ==
    IF kind = "signed"
    THEN \E m \in Mappings, ts \in 0..now :
            /\ token = SignedToken(m, ts, SecretKey)
            /\ max_age # NoMaxAge => now - ts <= max_age[1]
    ELSE \E m \in Mappings : token = <<"b64", json_dump_bytes(m)>>
\* index of the last clear() call, 0 when there is none
LastClear ==
    IF \E i \in 1..Len(hist) : hist[i] = "clear"
    THEN CHOOSE i \in 1..Len(hist) :
            hist[i] = "clear" /\ \A j \in (i + 1)..Len(hist) : hist[j] # "clear"
    ELSE 0
\* clear() was called and nothing was written since
ClearedSinceWrite ==
    LastClear > 0 /\ \A j \in (LastClear + 1)..Len(hist) : hist[j] # "setitem"

\* C11: clear semantics of the cookie session.  clear() leaves the mapping
\* empty and a set after it adds its key to that; a content read after
\* clear() with no write since returns no cookie, and every other content
\* read returns the token computed from the current mapping, which loads
\* back to that mapping.
C11_ClearSemantics ==
    [][/\ Called("clear") => ck_content' = EmptyMap
       /\ Called("setitem") =>
             /\ last'.ret = RetNone
             /\ ck_content' = DictSet(ck_content, last'.key, last'.val)
       /\ Called("content") =>
             IF ClearedSinceWrite THEN last'.ret = <<"content", NoToken>>
             ELSE /\ last'.ret = <<"content", save_content(ck_content)>>
                  /\ load_content(last'.ret[2]) = ck_content]_vars

\* C12: fail open.  Constructing a cookie session raises for no inbound
\* token; when a stage of the pipeline fails or the payload is no mapping
\* the content is the empty mapping; the session holds a mapping and no
\* method fails the way a non-mapping does.
C12_FailOpen ==
    /\ hist = <<>> => last.ret = RetNone
    /\ (hist = <<>> /\ presented # NoToken /\ ~WellFormed(presented)) =>
           ck_content = EmptyMap
    /\ ck_type = "dict"
    /\ last.ret \notin {TypeError, IndexError}

\* the moments up to one second past the longest finite max_age after now
Later == now..(now + MaxMaxAge + 1)
\* a token signed now is within max_age at time t
WithinMaxAge(t) == max_age = NoMaxAge \/ t - now <= max_age[1]

\* C13: round trip.  For the plain and for the signed backend, with every
\* max_age and at every time a session is constructed at, the token
\* save_content gives for a mapping loads back to that mapping at every
\* moment within max_age of being saved; so does the token a content read
\* returns for the session's mapping.
C13_RoundTrip ==
    /\ hist = <<>> =>
           \A m \in Mappings, t \in Later :
               WithinMaxAge(t) => load_content_at(save_content(m), t) = m
    /\ (last.op = "content" /\ last.ret[1] = "content" /\ last.ret[2] # NoToken) =>
           /\ last.ret[2] = save_content(ck_content)
           /\ \A t \in Later : WithinMaxAge(t) => load_content_at(last.ret[2], t) = ck_content

\* a signed session with a finite max_age wrote a key and read its content
C13_Witness ==
    /\ kind = "signed"
    /\ max_age # NoMaxAge
    /\ hist = <<"setitem", "content">>
    /\ last.ret[1] = "content"
    /\ last.ret[2] # NoToken
    /\ ck_content # EmptyMap

\* the token was signed at ts and is older than max_age now
Expired(ts) == max_age # NoMaxAge /\ now - ts > max_age[1]

\* C14: expiry without a store.  A validly signed token loads as the empty
\* mapping exactly when now minus its signing time exceeds a finite max_age
\* and loads its mapping otherwise; with max_age None it always loads its
\* mapping.  The session constructed from it holds what load gives.
C14_Expiry ==
    /\ \A m \in Mappings, ts \in 0..now :
           load_content(SignedToken(m, ts, SecretKey)) = IF Expired(ts) THEN EmptyMap ELSE m
    /\ \A m \in TokenMappings, ts \in 0..now :
           (hist = <<>> /\ presented = SignedToken(m, ts, SecretKey)) =>
               ck_content = IF Expired(ts) THEN EmptyMap ELSE m

\* max_age is 1 second and the token presented, which holds a key, is 2
\* seconds old
C14_Witness ==
    /\ max_age = <<1>>
    /\ now = 2
    /\ presented = SignedToken([k \in {"a"} |-> 1], 0, SecretKey)
    /\ hist = <<>>
    /\ ck_content = EmptyMap

\* the cookie values the signed backend rejects, and no cookie
RejectedTokens ==
    {NoToken} \cup TamperedTokens
        \cup {SignedToken(m, ts, SecretKey) : m \in TokenMappings,
                                              ts \in {s \in 0..now : Expired(s)}}

\* C15: uniform rejection.  Constructed from a tampered token, an expired
\* token or no token, the session starts in one and the same state (empty
\* mapping, accessed false, not cleared, nothing raised), and every later
\* result is that of a mapping that started empty: it is determined by the
\* calls made so far, whatever the token was.
C15_UniformRejection ==
    /\ [](presented \in RejectedTokens =>
            /\ hist = <<>> =>
                  /\ ck_content = EmptyMap
                  /\ ck_type = "dict"
                  /\ ~ck_accessed_read
                  /\ ~ck_cleared
                  /\ last.ret = RetNone
            /\ ck_accessed_read = (hist # <<>>)
            /\ ck_max_age_read = max_age)
    /\ [][(presented \in RejectedTokens) =>
            /\ ck_content' = Effect(ck_content, last')
            /\ Called("getitem") =>
                  last'.ret = IF last'.key \in DOMAIN ck_content
                              THEN <<"value", ck_content[last'.key]>> ELSE KeyError
            /\ Called("setitem") => last'.ret = RetNone
            /\ Called("delitem") =>
                  last'.ret = IF last'.key \in DOMAIN ck_content THEN RetNone ELSE KeyError
            /\ Called("len") => last'.ret = <<"len", Cardinality(DOMAIN ck_content)>>
            /\ Called("iter") => last'.ret = <<"keys", DOMAIN ck_content>>
            /\ Called("clear") => last'.ret = RetNone
            /\ Called("content") =>
                  last'.ret = <<"content", IF ClearedSinceWrite THEN NoToken
                                           ELSE save_content(ck_content)>>]_vars

\* a session constructed from a token with an altered timestamp wrote a key
\* and read its content
C15_Witness ==
    /\ presented = TimeTampered([k \in {"a"} |-> 1], 0, now)
    /\ hist = <<"setitem", "content">>
    /\ last.ret[1] = "content"
    /\ load_content(last.ret[2]) = ck_content
    /\ ck_content # EmptyMap

\* C19: in every reachable state of a bound session a materialized mapping
\* comes with a sid, so the session_exists check never raises and no call
\* returns the RuntimeError; the step that materializes the mapping of a
\* session without sid binds it to the sid new_session generated in that
\* step, which is no sid of the store, and the mapping is the empty one the
\* call then acted on.
C19_MaterializedHasSid ==
    /\ [](/\ session # NoSession => sid # None
          /\ ~session_exists_raises
          /\ last.ret # <<"RuntimeError">>
          /\ (presented = None /\ session # NoSession) => sid \in Issued)
    /\ [][(sid = None /\ session' # NoSession) =>
             /\ session = NoSession
             /\ sid' \in FreshSids
             /\ sid' \notin DOMAIN storage
             /\ calls' = Append(calls, Call("new_session", sid', Some(EmptyMap)))
             /\ session'[1] = Effect(EmptyMap, last')]_vars

\* a session constructed without sid wrote a key and had its content read
C19_Witness ==
    /\ presented = None
    /\ hist = <<"setitem", "content">>
    /\ session # NoSession
    /\ session[1] # EmptyMap
    /\ sid \in FreshSids
    /\ last.ret = <<"content", sid>>

\* this step is send_wrapper handling the response-start message
ResponseStarts == mw.pc = "app" /\ mw'.pc = "none"
\* this step is the middleware constructing the session of a new request
RequestStarts == mw.pc = "none" /\ mw'.pc = "app"
\* what the content read of this step returned, as a cookie value
ContentRead == IF kind = "memory" THEN SidCookie(last'.ret[2]) ELSE last'.ret[2]

\* C16: middleware boundary.  On the response-start message a Set-Cookie
\* header is appended if and only if session.accessed is true, and content
\* is read (with its commit or keep-alive) only then; the header carries
\* what content returned, with Max-Age 0 when that is None and otherwise the
\* session's max_age, left out when max_age is None.
C16_MiddlewareBoundary ==
    [][ResponseStarts =>
          IF MwAccessed
          THEN /\ hist' = Append(hist, "content")
               /\ last'.ret[1] = "content"
               /\ mw'.header = <<"Set-Cookie", ContentRead,
                                 IF ContentRead = NoToken THEN <<0>> ELSE MwMaxAge>>
          ELSE /\ mw'.header = <<"none">>
               /\ hist' = hist
               /\ calls' = calls
               /\ storage' = storage]_vars

\* the cookie is a token the signed backend issued for a mapping
IsSignedToken(c) == \E m \in Mappings, ts \in 0..now : c = SignedToken(m, ts, SecretKey)

\* C17: sliding expiry of the signed-cookie backend.  A response-start of a
\* request in which the session was accessed and not left cleared sends a
\* token of the session's mapping signed at the time of that content read,
\* and the client holds it from then on; a request presenting a signed token
\* loads its mapping when the token's age is at most max_age (or max_age is
\* None) and an empty mapping when it is older, whoever presents it.
C17_SlidingExpiry ==
    /\ [][(kind = "signed" /\ ResponseStarts /\ MwAccessed /\ ~ClearedSinceWrite) =>
             /\ mw'.header[1] = "Set-Cookie"
             /\ mw'.header[2] = SignedToken(ck_content, now, SecretKey)
             /\ mw'.jar = mw'.header[2]]_vars
    /\ [][(kind = "signed" /\ RequestStarts /\ IsSignedToken(mw.jar)) =>
             ck_content' = IF max_age # NoMaxAge /\ now - mw.jar[2][3] > max_age[1]
                           THEN EmptyMap
                           ELSE json_load_bytes(mw.jar[2][2])[2]]_vars

\* max_age is 1 second; the second request, at time 2, presents the token
\* the first request was sent at time 1 and loads its mapping
C17_Witness ==
    /\ kind = "signed"
    /\ max_age = <<1>>
    /\ now = 2
    /\ mw.n = 2
    /\ mw.pc = "app"
    /\ presented = SignedToken(MwMapping, 1, SecretKey)
    /\ ck_content = MwMapping

\* C18: kept-warm sessions through the middleware.  When the response of a
\* request that carried a sid cookie and whose handler made no session call
\* has started, exactly one keep_session(sid) call and no load_session or
\* save_session call has been made.
C18_KeptWarm ==
    (kind = "memory" /\ mw.n >= 1 /\ mw.pc = "none" /\ presented # None /\ Untouched) =>
        /\ Count("keep_session") = 1
        /\ Count("load_session") = 0
        /\ Count("save_session") = 0

\* C20: clear() takes effect in the store.  When the response of a request
\* that presented a sid of the store and whose only session call was
\* clear() has started, the store entry of that sid is the empty mapping.
C20_ClearReachesStore ==
    (/\ kind = "memory"
     /\ mw.n >= 1
     /\ mw.pc = "none"
     /\ NOps = 1
     /\ hist[1] = "clear"
     /\ presented # None
     /\ presented \in DOMAIN storage) =>
        pickle_loads(storage[presented]) = EmptyMap

\* call i of the log obtained sid s from the store: a load_session(s) that
\* returned a mapping, or a new_session that issued s
Obtained(i, s) ==
    /\ calls[i].sid = s
    /\ \/ calls[i].fn = "load_session" /\ calls[i].res # NoSession
       \/ calls[i].fn = "new_session"

\* C21: identifiers of store writes are never chosen by the client.  Every
\* save_session call is made with a sid that an earlier load_session of
\* this session returned a mapping for or that new_session issued to this
\* session; the store's entries are those it started with and those of
\* issued sids, and a presented sid the store did not know (load_session
\* returned None for it) is never the sid of a save_session call and gets no
\* entry.
C21_StoreKeysNotClientChosen ==
    /\ \A i \in 1..Len(calls) :
           calls[i].fn = "save_session" =>
               \E j \in 1..(i - 1) : Obtained(j, calls[i].sid)
    /\ DOMAIN storage \subseteq StoredSids \cup Issued
    /\ (\E j \in 1..Len(calls) :
            calls[j] = Call("load_session", presented, NoSession)) =>
           /\ presented \notin DOMAIN storage
           /\ \A i \in 1..Len(calls) :
                  calls[i].fn = "save_session" => calls[i].sid # presented

\* a session constructed with a sid the store does not know wrote a key and
\* had its content read: the write went to an issued sid
C21_Witness ==
    /\ presented = "s2"
    /\ hist = <<"setitem", "content">>
    /\ Count("save_session") = 1
    /\ sid \in FreshSids
    /\ sid \in DOMAIN storage
    /\ last.ret = <<"content", sid>>

\* both requests have had their terminal content read
BothFinished == Finished(hist) /\ Finished(conc.other.hist)

\* C22: read-only requests do not disturb concurrent writers.  No call of
\* the reading request changes the mapping stored under the sid, and once
\* both requests have read their content the store holds the mapping the
\* writing request committed.
C22_ReadersDoNotDisturb ==
    /\ [][(conc.role = "reader" /\ conc'.role = "reader") =>
             pickle_loads(storage'[ConcSid]) = pickle_loads(storage[ConcSid])]_vars
    /\ []((BothFinished /\ conc.committed # NoSession) =>
             pickle_loads(storage[ConcSid]) = conc.committed[1])
====
